---------------------------- MODULE Spec2Model ----------------------------
(***************************************************************************)
(* The multi-round interview flow of app.py as a state machine.            *)
(*                                                                         *)
(* The program is a Streamlit script: every user interaction, and every    *)
(* st.rerun(), executes the script once from the top against the session   *)
(* state.  One action below is one execution of the script with one input  *)
(* (a button pressed, or none), and it changes the session state exactly   *)
(* as that execution does.                                                 *)
(*                                                                         *)
(* Python strings are sequences of one-character strings, so that          *)
(* str.lower, str.replace, str.strip and the "in" substring test are       *)
(* computed rather than assumed.  A dict is a set of <<key, value>> pairs. *)
(* None and "" (both falsy, and only ever tested with "or"/"not") are the  *)
(* empty sequence.                                                         *)
(***************************************************************************)
EXTENDS Integers, Sequences, FiniteSets, TLC

VARIABLES
    stage,                    \* st.session_state.stage
    profile,                  \* st.session_state.profile: a dict, {} when it is None
    plan,                     \* st.session_state.plan: its "rounds" list, <<>> when it is None
    rounds,                   \* st.session_state.rounds: sequence of [key, name, questions]
    current_round_index,      \* st.session_state.current_round_index
    question_index_in_round,  \* st.session_state.question_index_in_round
    evaluations,              \* st.session_state.evaluations
    interview_finished,       \* st.session_state.interview_finished
    candidate_started,        \* st.session_state.candidate_started
    clock,                    \* the wall clock read by datetime.now()
    feedback,                 \* the message the last execution of the script displayed
    reported,                 \* the evaluations the last execution passed to the report generators, <<>> if none
    asked,                    \* the text of the question the last execution displayed, <<>> if none
    scored,                   \* the answers the last execution passed to evaluate_answer: <<answer_transcript>>, <<>> if it made no call
    transcripts,              \* st.session_state["transcript_{r}_{q}"]: pairs <<<<r, q>>, text>>, the empty texts left out
    presented                 \* the question the last execution displayed: <<round_idx, q_idx>> or <<>>

sessionVars == <<rounds, current_round_index, question_index_in_round,
                 evaluations, interview_finished, candidate_started>>

vars == <<stage, profile, plan, rounds, current_round_index, question_index_in_round,
          evaluations, interview_finished, candidate_started, clock, feedback,
          presented, reported, asked, scored, transcripts>>

(***************************************************************************)
(* Bounds of the model.                                                    *)
(***************************************************************************)
\* The longest plan (number of raw rounds) the plan oracle returns.
MaxRounds == 2
\* The number of submissions of one interview that a widget event interrupts.
MaxInterrupted == 1
\* The number of clock ticks (recorded answers) over the whole run.
MaxClock == 4

(***************************************************************************)
(* Python string helpers.                                                  *)
(***************************************************************************)
None == <<>>

\* x or y, for strings and None
Or(x, y) == IF x # <<>> THEN x ELSE y

\* str.lower(), one character
LowerChar(c) ==
    CASE c = "F" -> "f" [] c = "J" -> "j" [] c = "M" -> "m" [] c = "S" -> "s"
      [] c = "H" -> "h" [] c = "R" -> "r" [] c = "T" -> "t" [] c = "I" -> "i"
      [] c = "N" -> "n" [] c = "E" -> "e" [] c = "D" -> "d" [] c = "L" -> "l"
      [] OTHER -> c

Lower(s) == [i \in 1..Len(s) |-> LowerChar(s[i])]

\* str.replace(" ", "_")
ReplaceSpaces(s) == [i \in 1..Len(s) |-> IF s[i] = " " THEN "_" ELSE s[i]]

IsSpace(c) == c = " "

RECURSIVE LStrip(_)
LStrip(s) == IF s # <<>> /\ IsSpace(Head(s)) THEN LStrip(Tail(s)) ELSE s

RECURSIVE RStrip(_)
RStrip(s) ==
    IF s # <<>> /\ IsSpace(s[Len(s)]) THEN RStrip(SubSeq(s, 1, Len(s) - 1)) ELSE s

\* str.strip()
Strip(s) == RStrip(LStrip(s))

\* sub in s
Contains(s, sub) ==
    \E i \in 1..(Len(s) - Len(sub) + 1) : SubSeq(s, i, i + Len(sub) - 1) = sub

\* dict.get(k) is not None / dict[k], for a dict given as a set of pairs
DictHas(d, k) == \E p \in d : p[1] = k
DictValue(d, k) == (CHOOSE p \in d : p[1] = k)[2]
DictGet(d, k, default) == IF DictHas(d, k) THEN DictValue(d, k) ELSE default

RECURSIVE SumSeq(_)
SumSeq(s) == IF s = <<>> THEN 0 ELSE Head(s) + SumSeq(Tail(s))


(***************************************************************************)
(* The strings the program and its inputs use.                             *)
(***************************************************************************)
StrFresher == <<"F", "r", "e", "s", "h", "e", "r">>
StrJunior == <<"J", "u", "n", "i", "o", "r">>
StrMid == <<"M", "i", "d">>
StrSenior == <<"S", "e", "n", "i", "o", "r">>
StrLowFresher == <<"f", "r", "e", "s", "h", "e", "r">>
StrLowIntern == <<"i", "n", "t", "e", "r", "n">>
StrLowJunior == <<"j", "u", "n", "i", "o", "r">>
StrLowMid == <<"m", "i", "d">>
StrLowSenior == <<"s", "e", "n", "i", "o", "r">>
StrInterviewRound == <<"I", "n", "t", "e", "r", "v", "i", "e", "w", " ", "R", "o", "u", "n", "d">>

StrIntern == <<"I", "n", "t", "e", "r", "n">>
StrUpperIntern == <<"I", "N", "T", "E", "R", "N">>
StrUpperMid == <<"M", "I", "D">>
StrLead == <<"L", "e", "a", "d">>

\* The options of the "Experience level" selectbox.
ExperienceOptions == {StrFresher, StrJunior, StrMid, StrSenior}

\* Experience levels for get_round_pass_threshold taken as a function of any
\* profile: the options, other spellings of the levels, a level it does not
\* know and the empty string.
ExperienceInputs ==
    ExperienceOptions \cup
      {StrIntern, StrUpperIntern, StrLowFresher, StrLowJunior, StrUpperMid, StrLowSenior,
       StrLead, <<>>}

\* st.session_state.get("profile") or {}: no profile, a profile without the
\* "experience" entry, and a profile with each of the levels.
ProfileInputs ==
    { {}, {<<"name", <<"A">>>>} } \cup { {<<"experience", e>>} : e \in ExperienceInputs }

(***************************************************************************)
(* get_round_pass_threshold: the threshold on the 10-point scale (5 is     *)
(* 5.0), from the experience level of the profile.                         *)
(***************************************************************************)
\* Faulty variant of GetRoundPassThreshold: the level is compared as typed.
GetRoundPassThresholdCaseSensitive(prof) ==
    LET exp == Or(DictGet(prof, "experience", None), <<>>) IN
    IF Contains(exp, StrLowFresher) \/ Contains(exp, StrLowIntern) THEN 5
    ELSE IF Contains(exp, StrLowJunior) THEN 6
    ELSE IF Contains(exp, StrLowMid) THEN 7
    ELSE IF Contains(exp, StrLowSenior) THEN 8
    ELSE 6

GetRoundPassThreshold(prof) ==
    LET exp == Lower(Or(DictGet(prof, "experience", None), <<>>)) IN
    IF Contains(exp, StrLowFresher) \/ Contains(exp, StrLowIntern) THEN 5
    ELSE IF Contains(exp, StrLowJunior) THEN 6
    ELSE IF Contains(exp, StrLowMid) THEN 7
    ELSE IF Contains(exp, StrLowSenior) THEN 8
    ELSE 6

(***************************************************************************)
(* build_rounds: the plan of the plan oracle, normalised.                  *)
(* A raw round is [round_key, key, round_name, name, questions]; an absent *)
(* field is None.  A raw question is [isstr, text]: isstr is FALSE for a   *)
(* JSON value that is not a string.                                        *)
(***************************************************************************)
\* Faulty variant of IsCleanQuestion: a string of blanks counts as a question.
IsCleanQuestionUnstripped(q) == q.isstr /\ q.text # <<>>

\* isinstance(q, str) and q.strip()
IsCleanQuestion(q) == q.isstr /\ Strip(q.text) # <<>>

CleanQuestions(questions) ==
    LET kept == SelectSeq(questions, IsCleanQuestion)
    IN  [i \in 1..Len(kept) |-> kept[i].text]

FallbackKey(round_name) == ReplaceSpaces(Lower(round_name))

NormalizeRound(r) ==
    LET round_key0 == Or(r.round_key, r.key)
        round_name == Or(Or(r.round_name, r.name), Or(round_key0, StrInterviewRound))
        clean_questions == CleanQuestions(r.questions)
        round_key == IF round_key0 = <<>> THEN FallbackKey(round_name) ELSE round_key0
    IN  [key |-> round_key, name |-> round_name, questions |-> clean_questions]

\* Faulty variant of KeepsRound: a round without questions is kept.
KeepsRoundAlways(clean_questions) == TRUE

\* if clean_questions:
KeepsRound(clean_questions) == clean_questions # <<>>

RECURSIVE BuildRounds(_)
BuildRounds(raw_rounds) ==
    IF raw_rounds = <<>> THEN <<>>
    ELSE LET n == NormalizeRound(Head(raw_rounds))
         IN  (IF KeepsRound(n.questions) THEN <<n>> ELSE <<>>) \o BuildRounds(Tail(raw_rounds))

(***************************************************************************)
(* The inputs: what the plan oracle, the scoring oracle and the candidate  *)
(* can supply.                                                             *)
(***************************************************************************)
QText1 == <<"q", "1">>
QText2 == <<"q", "2">>
RawQ1 == [isstr |-> TRUE, text |-> QText1]
RawQ2 == [isstr |-> TRUE, text |-> QText2]
RawQBlank == [isstr |-> TRUE, text |-> <<" ">>]
RawQNonString == [isstr |-> FALSE, text |-> <<>>]

RawRoundPool ==
    { \* a complete round, with a blank question to filter out
      [round_key |-> <<"h", "r">>, key |-> None, round_name |-> <<"H", "R">>, name |-> None,
       questions |-> <<RawQ1, RawQBlank, RawQ2>>],
      \* the alternative field names
      [round_key |-> None, key |-> <<"t">>, round_name |-> None, name |-> <<"T">>,
       questions |-> <<RawQ1>>],
      \* no key: derived from the name, and here equal to the first round's key
      [round_key |-> None, key |-> None, round_name |-> <<"H", "R">>, name |-> None,
       questions |-> <<RawQ2>>],
      \* no usable question
      [round_key |-> <<"x">>, key |-> None, round_name |-> <<"H", " ", "R">>, name |-> None,
       questions |-> <<RawQBlank, RawQNonString>>],
      \* neither key nor name
      [round_key |-> None, key |-> None, round_name |-> None, name |-> None,
       questions |-> <<RawQ1>>] }

RECURSIVE SeqsUpTo(_, _)
SeqsUpTo(S, n) ==
    IF n = 0 THEN {<<>>}
    ELSE LET shorter == SeqsUpTo(S, n - 1)
         IN  shorter \cup {Append(s, x) : s \in shorter, x \in S}

\* plan.get("rounds", []) or []
Plans == SeqsUpTo(RawRoundPool, MaxRounds)

ScoreValues == {4, 6, 8}

\* What evaluate_answer returns when it returns: the parsed JSON object.
EvalResults ==
    { {}, {<<"scores", {}>>} }
      \cup { {<<"scores", {<<"overall_impression", n>>}>>} : n \in ScoreValues }

\* The content of the answer box when the submit button is pressed.
Answers == { <<>>, <<" ">>, <<"o", "k">>, <<" ", "o", "k", " ">> }

(***************************************************************************)
(* Session state initialization (the top of the script).                   *)
(***************************************************************************)
Init ==
    /\ stage = "onboarding"
    /\ profile = {}
    /\ plan = <<>>
    /\ rounds = <<>>
    /\ current_round_index = 0
    /\ question_index_in_round = 0
    /\ evaluations = <<>>
    /\ interview_finished = FALSE
    /\ candidate_started = FALSE
    /\ clock = 0
    /\ feedback = "none"
    /\ presented = <<>>
    /\ reported = <<>>
    /\ asked = <<>>
    /\ scored = <<>>
    /\ transcripts = {}

\* Faulty variant of ResetEverything: "evaluations" is missing from the keys
\* deleted.
ResetEverythingKeepsEvaluations ==
    /\ stage' = "onboarding"
    /\ profile' = {}
    /\ plan' = <<>>
    /\ rounds' = <<>>
    /\ current_round_index' = 0
    /\ question_index_in_round' = 0
    /\ interview_finished' = FALSE
    /\ candidate_started' = FALSE
    /\ feedback' = "restart"
    /\ presented' = <<>>
    /\ asked' = <<>>
    /\ scored' = <<>>
    /\ UNCHANGED transcripts
    /\ reported' = <<>>
    /\ UNCHANGED <<evaluations, clock>>

(***************************************************************************)
(* reset_everything, followed by st.rerun(): the keys are deleted and the  *)
(* initialization at the top of the script gives them their defaults.      *)
(***************************************************************************)
ResetEverything ==
    /\ stage' = "onboarding"
    /\ profile' = {}
    /\ plan' = <<>>
    /\ rounds' = <<>>
    /\ current_round_index' = 0
    /\ question_index_in_round' = 0
    /\ evaluations' = <<>>
    /\ interview_finished' = FALSE
    /\ candidate_started' = FALSE
    /\ feedback' = "restart"
    /\ presented' = <<>>
    /\ asked' = <<>>
    /\ scored' = <<>>
    /\ UNCHANGED transcripts
    /\ reported' = <<>>
    /\ UNCHANGED clock

\* The sidebar button "Restart Interview Flow", drawn in every stage.
SidebarRestart == ResetEverything

\* "Back to start", drawn by run_analysis under either of its error messages,
\* pressed, in an execution that fails again.
AnalysisBackToStart ==
    /\ stage = "analysis"
    /\ feedback \in {"extract_failed", "no_rounds"}
    /\ ResetEverything

\* "Start a new interview" of the results page.
ResultsNewInterview ==
    /\ stage = "results"
    /\ feedback \in {"results", "no_evaluations"}
    /\ ResetEverything

(***************************************************************************)
(* Stage 1, render_onboarding: "Start interview setup" pressed.            *)
(* complete: every required field is filled and the resume is not empty.   *)
(***************************************************************************)
\* Faulty variant of OnboardingSubmit: the form leads to the interview stage.
OnboardingSubmitToInterview ==
    /\ stage = "onboarding"
    /\ \E experience \in ExperienceOptions, complete \in BOOLEAN :
          IF complete
          THEN /\ profile' = {<<"experience", experience>>}
               /\ stage' = "interview"
               /\ feedback' = "captured"
          ELSE /\ feedback' = "missing_fields"
               /\ UNCHANGED <<stage, profile>>
    /\ presented' = <<>>
    /\ asked' = <<>>
    /\ scored' = <<>>
    /\ UNCHANGED transcripts
    /\ reported' = <<>>
    /\ UNCHANGED <<plan, sessionVars, clock>>

\* st.session_state.profile = {...}; st.session_state.stage = "analysis"
OnboardingSubmit ==
    /\ stage = "onboarding"
    /\ \E experience \in ExperienceOptions, complete \in BOOLEAN :
          IF complete
          THEN /\ profile' = {<<"experience", experience>>}
               /\ stage' = "analysis"
               /\ feedback' = "captured"
          ELSE /\ feedback' = "missing_fields"
               /\ UNCHANGED <<stage, profile>>
    /\ presented' = <<>>
    /\ asked' = <<>>
    /\ scored' = <<>>
    /\ UNCHANGED transcripts
    /\ reported' = <<>>
    /\ UNCHANGED <<plan, sessionVars, clock>>

(***************************************************************************)
(* Stage 2, run_analysis.  extracted: the resume yields text.              *)
(***************************************************************************)
\* Faulty variant of NoRounds: the check is missing.
NoRoundsUnchecked(new_rounds) == FALSE

\* if not rounds
NoRounds(new_rounds) == new_rounds = <<>>

RunAnalysis ==
    /\ stage = "analysis"
    /\ \E extracted \in BOOLEAN, new_plan \in Plans :
          LET new_rounds == BuildRounds(new_plan) IN
          IF ~extracted
          THEN /\ feedback' = "extract_failed"
               /\ UNCHANGED <<stage, plan, sessionVars>>
          ELSE IF NoRounds(new_rounds)
          THEN /\ feedback' = "no_rounds"
               /\ UNCHANGED <<stage, plan, sessionVars>>
          ELSE /\ plan' = new_plan
               /\ rounds' = new_rounds
               /\ current_round_index' = 0
               /\ question_index_in_round' = 0
               /\ evaluations' = <<>>
               /\ interview_finished' = FALSE
               /\ candidate_started' = FALSE
               /\ feedback' = "rounds_ready"
               /\ stage' = "interview"
    /\ presented' = <<>>
    /\ asked' = <<>>
    /\ scored' = <<>>
    /\ UNCHANGED transcripts
    /\ reported' = <<>>
    /\ UNCHANGED <<profile, clock>>

(***************************************************************************)
(* Stage 3, render_interview.                                              *)
(***************************************************************************)
\* ev["evaluation"].get("scores", {}).get("overall_impression", None) is not None
HasScore(ev) == DictHas(DictGet(ev.evaluation, "scores", {}), "overall_impression")
ScoreOf(ev) == DictValue(DictGet(ev.evaluation, "scores", {}), "overall_impression")

\* Faulty variant of RoundScores: an evaluation without overall_impression
\* counts as a score of 0.
RoundScoresZeroForMissing(evs, round_key) ==
    LET Counts(ev) == ev.round_key = round_key
        kept == SelectSeq(evs, Counts)
    IN  [i \in 1..Len(kept) |-> IF HasScore(kept[i]) THEN ScoreOf(kept[i]) ELSE 0]

\* The scores the round boundary collects: those of the evaluations that
\* carry round_key and have an overall_impression.
RoundScores(evs, round_key) ==
    LET Counts(ev) == ev.round_key = round_key /\ HasScore(ev)
        kept == SelectSeq(evs, Counts)
    IN  [i \in 1..Len(kept) |-> ScoreOf(kept[i])]

\* Faulty variant of AverageAtLeast: the comparison is strict.
AverageAboveOnly(scores, threshold) ==
    IF scores # <<>> THEN SumSeq(scores) > threshold * Len(scores) ELSE 0 > threshold

\* Faulty variant of AverageAtLeast: a round without scores passes.
AverageAtLeastEmptyPasses(scores, threshold) ==
    IF scores # <<>> THEN SumSeq(scores) >= threshold * Len(scores) ELSE TRUE

\* avg_score >= threshold, with avg_score = sum(scores) / len(scores) if scores else 0.0.
\* The scores and the thresholds are whole numbers, for which the quotient
\* compares with the threshold as the sum does with threshold * len(scores).
AverageAtLeast(scores, threshold) ==
    IF scores # <<>> THEN SumSeq(scores) >= threshold * Len(scores) ELSE 0 >= threshold

\* Faulty variants of HasNextRound: off by one, either way.
HasNextRoundShort(round_idx, total_rounds) == round_idx < total_rounds - 2

HasNextRoundLong(round_idx, total_rounds) == round_idx < total_rounds

\* round_idx < total_rounds - 1
HasNextRound(round_idx, total_rounds) == round_idx < total_rounds - 1

\* Faulty variant of ShouldAdvance: "or" for "and".
ShouldAdvanceEither(avg_ok, round_idx, total_rounds) ==
    avg_ok \/ HasNextRound(round_idx, total_rounds)

\* avg_score >= threshold and round_idx < total_rounds - 1
ShouldAdvance(avg_ok, round_idx, total_rounds) ==
    avg_ok /\ HasNextRound(round_idx, total_rounds)

\* Faulty variant of PassRound: the question index is not reset.
PassRoundKeepQuestion ==
    /\ current_round_index' = current_round_index + 1
    /\ UNCHANGED question_index_in_round

\* The round is passed and another follows.
PassRound ==
    /\ current_round_index' = current_round_index + 1
    /\ question_index_in_round' = 0

\* Faulty variant of EndFeedback: the two messages exchanged.
EndFeedbackSwapped(round_idx, total_rounds) ==
    IF HasNextRound(round_idx, total_rounds) THEN "final_completed" ELSE "failed_threshold"

\* The message that ends the interview: st.error for a round that is not
\* the last, st.success for the last.
EndFeedback(round_idx, total_rounds) ==
    IF HasNextRound(round_idx, total_rounds) THEN "failed_threshold" ELSE "final_completed"

\* Faulty variant of NewEvaluation: the round name stored as the round key.
NewEvaluationNameAsKey(current_round, current_question, final_answer, eval_result, now) ==
    [round_key |-> current_round.name,
     round_name |-> current_round.name,
     question |-> current_question,
     answer |-> final_answer,
     evaluation |-> eval_result,
     timestamp |-> now]

\* The record the submit handler appends.
NewEvaluation(current_round, current_question, final_answer, eval_result, now) ==
    [round_key |-> current_round.key,
     round_name |-> current_round.name,
     question |-> current_question,
     answer |-> final_answer,
     evaluation |-> eval_result,
     timestamp |-> now]

\* Faulty variant of RecordEvaluation: the record is appended twice.
RecordEvaluationTwice(evs, ev) == Append(Append(evs, ev), ev)

\* Faulty variant of RecordEvaluation: inserted at the front.
RecordEvaluationFirst(evs, ev) == <<ev>> \o evs

\* st.session_state.evaluations.append(...)
RecordEvaluation(evs, ev) == Append(evs, ev)

\* Faulty variant of EvaluationFailed: the failed question is skipped.
EvaluationFailedSkips ==
    /\ question_index_in_round' = question_index_in_round + 1
    /\ UNCHANGED <<rounds, current_round_index, evaluations, interview_finished,
                   candidate_started>>

\* evaluate_answer raised: the except branch displays the error.
EvaluationFailed == UNCHANGED sessionVars

\* Faulty variant of NoFinalAnswer: the check is missing.
NoFinalAnswerUnchecked(final_answer) == FALSE

\* if not final_answer
NoFinalAnswer(final_answer) == final_answer = <<>>

\* Faulty variant of QuestionAt: always the first question of the round.
QuestionAtFirst(questions, q_idx) == questions[1]

\* questions[q_idx], of a Python list
QuestionAt(questions, q_idx) == questions[q_idx + 1]

\* Faulty variant of AskQuestion: displaying a question moves on to the next.
AskQuestionConsumes ==
    /\ question_index_in_round' = question_index_in_round + 1
    /\ UNCHANGED <<stage, rounds, current_round_index, evaluations, interview_finished,
                   candidate_started>>

\* The question is displayed, with the recorder and the answer box, and no
\* button is pressed: the session state is only read.
AskQuestion == UNCHANGED <<stage, sessionVars>>

\* The intro screen, nothing pressed.
RenderIntro ==
    /\ stage = "interview"
    /\ ~candidate_started
    /\ feedback' = "intro"
    /\ presented' = <<>>
    /\ asked' = <<>>
    /\ scored' = <<>>
    /\ UNCHANGED transcripts
    /\ reported' = <<>>
    /\ UNCHANGED <<stage, profile, plan, sessionVars, clock>>

\* Faulty variant of StartInterview: the interview starts at the second
\* question.
StartInterviewAtSecond ==
    /\ stage = "interview"
    /\ ~candidate_started
    /\ candidate_started' = TRUE
    /\ interview_finished' = FALSE
    /\ current_round_index' = 0
    /\ question_index_in_round' = 1
    /\ evaluations' = <<>>
    /\ feedback' = "started"
    /\ presented' = <<>>
    /\ reported' = <<>>
    /\ asked' = <<>>
    /\ scored' = <<>>
    /\ UNCHANGED transcripts
    /\ UNCHANGED <<stage, profile, plan, rounds, clock>>

\* Faulty variant of StartInterview: the button is offered to a started
\* session too.
StartInterviewAgain ==
    /\ stage = "interview"
    /\ candidate_started' = TRUE
    /\ interview_finished' = FALSE
    /\ current_round_index' = 0
    /\ question_index_in_round' = 0
    /\ evaluations' = <<>>
    /\ feedback' = "started"
    /\ presented' = <<>>
    /\ asked' = <<>>
    /\ scored' = <<>>
    /\ UNCHANGED transcripts
    /\ reported' = <<>>
    /\ UNCHANGED <<stage, profile, plan, rounds, clock>>

\* The intro screen, "Start voice interview" pressed.
StartInterview ==
    /\ stage = "interview"
    /\ ~candidate_started
    /\ candidate_started' = TRUE
    /\ interview_finished' = FALSE
    /\ current_round_index' = 0
    /\ question_index_in_round' = 0
    /\ evaluations' = <<>>
    /\ feedback' = "started"
    /\ presented' = <<>>
    /\ asked' = <<>>
    /\ scored' = <<>>
    /\ UNCHANGED transcripts
    /\ reported' = <<>>
    /\ UNCHANGED <<stage, profile, plan, rounds, clock>>

(***************************************************************************)
(* The main interview flow with nothing pressed: the execution st.rerun()  *)
(* starts after a recorded answer and after a passed round.  It decides    *)
(* the round at a round boundary and displays the question otherwise.      *)
(***************************************************************************)
Advance ==
    /\ stage = "interview"
    /\ candidate_started
    /\ IF ~interview_finished
       THEN LET round_idx == current_round_index
                total_rounds == Len(rounds)
            IN
            IF round_idx >= total_rounds
            THEN /\ interview_finished' = TRUE
                 /\ stage' = "results"
                 /\ feedback' = "exhausted"
                 /\ presented' = <<>>
                 /\ asked' = <<>>
                 /\ scored' = <<>>
                 /\ UNCHANGED transcripts
                 /\ reported' = <<>>
                 /\ UNCHANGED <<rounds, current_round_index, question_index_in_round,
                                evaluations, candidate_started>>
            ELSE LET current_round == rounds[round_idx + 1]
                     total_q_in_round == Len(current_round.questions)
                     q_idx == question_index_in_round
                 IN
                 IF q_idx >= total_q_in_round
                 THEN LET scores == RoundScores(evaluations, current_round.key)
                          threshold == GetRoundPassThreshold(profile)
                      IN
                      IF ShouldAdvance(AverageAtLeast(scores, threshold), round_idx, total_rounds)
                      THEN /\ PassRound
                           /\ feedback' = "passed"
                           /\ presented' = <<>>
                           /\ asked' = <<>>
                           /\ scored' = <<>>
                           /\ UNCHANGED transcripts
                           /\ reported' = <<>>
                           /\ UNCHANGED <<stage, rounds, evaluations, interview_finished,
                                          candidate_started>>
                      ELSE /\ feedback' = EndFeedback(round_idx, total_rounds)
                           /\ interview_finished' = TRUE
                           /\ stage' = "results"
                           /\ presented' = <<>>
                           /\ asked' = <<>>
                           /\ scored' = <<>>
                           /\ UNCHANGED transcripts
                           /\ reported' = <<>>
                           /\ UNCHANGED <<rounds, current_round_index,
                                          question_index_in_round, evaluations,
                                          candidate_started>>
                 ELSE /\ feedback' = "question"
                      /\ presented' = <<round_idx, q_idx>>
                      /\ asked' = QuestionAt(current_round.questions, q_idx)
                      /\ scored' = <<>>
                      /\ UNCHANGED transcripts
                      /\ reported' = <<>>
                      /\ AskQuestion
       ELSE /\ stage' = "results"
            /\ feedback' = "to_results"
            /\ presented' = <<>>
            /\ asked' = <<>>
            /\ scored' = <<>>
            /\ UNCHANGED transcripts
            /\ reported' = <<>>
            /\ UNCHANGED sessionVars
    /\ UNCHANGED <<profile, plan, clock>>

\* Faulty variant of Submit: the form of the last question is still offered
\* at the round boundary.
SubmitAfterLastQuestion ==
    /\ stage = "interview"
    /\ candidate_started
    /\ ~interview_finished
    /\ current_round_index < Len(rounds)
    /\ LET round_idx == current_round_index
           current_round == rounds[round_idx + 1]
           q_idx == question_index_in_round
       IN
       /\ q_idx <= Len(current_round.questions)
       /\ presented' = <<round_idx, q_idx>>
       /\ asked' = <<>>
       /\ UNCHANGED transcripts
       /\ reported' = <<>>
       /\ \E answer \in Answers :
             LET current_question ==
                     IF q_idx < Len(current_round.questions)
                     THEN current_round.questions[q_idx + 1]
                     ELSE current_round.questions[q_idx]
                 final_answer == Strip(answer)
             IN
             IF NoFinalAnswer(final_answer)
             THEN /\ feedback' = "blank_answer"
                  /\ scored' = <<>>
                  /\ UNCHANGED <<sessionVars, clock>>
             ELSE /\ scored' = <<final_answer>>
                  /\ \/ /\ EvaluationFailed
                        /\ feedback' = "eval_error"
                        /\ UNCHANGED clock
                     \/ /\ clock < MaxClock
                        /\ \E eval_result \in EvalResults :
                              evaluations' = RecordEvaluation(evaluations,
                                  NewEvaluation(current_round, current_question,
                                                final_answer, eval_result, clock))
                        /\ question_index_in_round' = question_index_in_round + 1
                        /\ clock' = clock + 1
                        /\ feedback' = "recorded"
                        /\ UNCHANGED <<rounds, current_round_index, interview_finished,
                                       candidate_started>>
    /\ UNCHANGED <<stage, profile, plan>>

(***************************************************************************)
(* The main interview flow with the submit button of the displayed         *)
(* question pressed.  answer is the content of the answer box;             *)
(* evaluate_answer either raises or returns eval_result.                   *)
(***************************************************************************)
Submit ==
    /\ stage = "interview"
    /\ candidate_started
    /\ ~interview_finished
    /\ current_round_index < Len(rounds)
    /\ LET round_idx == current_round_index
           current_round == rounds[round_idx + 1]
           q_idx == question_index_in_round
       IN
       /\ q_idx < Len(current_round.questions)
       /\ presented' = <<round_idx, q_idx>>
       /\ asked' = QuestionAt(current_round.questions, q_idx)
       /\ UNCHANGED transcripts
       /\ reported' = <<>>
       /\ \E answer \in Answers :
             LET current_question == QuestionAt(current_round.questions, q_idx)
                 final_answer == Strip(answer)
             IN
             IF NoFinalAnswer(final_answer)
             THEN /\ feedback' = "blank_answer"
                  /\ scored' = <<>>
                  /\ UNCHANGED <<sessionVars, clock>>
             ELSE /\ scored' = <<final_answer>>
                  /\ \/ /\ EvaluationFailed
                        /\ feedback' = "eval_error"
                        /\ UNCHANGED clock
                     \/ /\ clock < MaxClock
                        /\ \E eval_result \in EvalResults :
                              evaluations' = RecordEvaluation(evaluations,
                                  NewEvaluation(current_round, current_question,
                                                final_answer, eval_result, clock))
                        /\ question_index_in_round' = question_index_in_round + 1
                        /\ clock' = clock + 1
                        /\ feedback' = "recorded"
                        /\ UNCHANGED <<rounds, current_round_index, interview_finished,
                                       candidate_started>>
    /\ UNCHANGED <<stage, profile, plan>>

(***************************************************************************)
(* Stage 4, render_results: the reports are generated from the evaluations *)
(* and displayed; the session state is only read.                          *)
(***************************************************************************)
\* Faulty variant of ReportInput: only the last evaluation is reported.
ReportInputLastOnly(evs) == <<evs[Len(evs)]>>

\* evaluations=st.session_state.evaluations, the argument of both generators
ReportInput(evs) == evs

\* Faulty variant of RenderResults: the log is emptied once reported.
RenderResultsConsuming ==
    /\ stage = "results"
    /\ feedback' = IF evaluations = <<>> THEN "no_evaluations" ELSE "results"
    /\ presented' = <<>>
    /\ asked' = <<>>
    /\ scored' = <<>>
    /\ UNCHANGED transcripts
    /\ reported' = IF evaluations = <<>> THEN <<>> ELSE ReportInput(evaluations)
    /\ evaluations' = <<>>
    /\ UNCHANGED <<stage, profile, plan, rounds, current_round_index,
                   question_index_in_round, interview_finished, candidate_started, clock>>

RenderResults ==
    /\ stage = "results"
    /\ feedback' = IF evaluations = <<>> THEN "no_evaluations" ELSE "results"
    /\ presented' = <<>>
    /\ asked' = <<>>
    /\ scored' = <<>>
    /\ UNCHANGED transcripts
    /\ reported' = IF evaluations = <<>> THEN <<>> ELSE ReportInput(evaluations)
    /\ UNCHANGED <<stage, profile, plan, sessionVars, clock>>

Next ==
    \/ SidebarRestart
    \/ AnalysisBackToStart
    \/ ResultsNewInterview
    \/ OnboardingSubmit
    \/ RunAnalysis
    \/ RenderIntro
    \/ StartInterview
    \/ Advance
    \/ Submit
    \/ RenderResults

Spec == Init /\ [][Next]_vars

(***************************************************************************)
(* get_round_pass_threshold as a function of the profile: the session as   *)
(* run_analysis leaves it, for a plan of two rounds with different keys,   *)
(* the first of two questions, and for any profile of ProfileInputs.       *)
(***************************************************************************)
ThresholdPlan ==
    CHOOSE p \in Plans :
        LET r == BuildRounds(p) IN
        /\ Len(r) = 2
        /\ r[1].key # r[2].key
        /\ Len(r[1].questions) = 2

InitThreshold ==
    /\ stage = "interview"
    /\ profile \in ProfileInputs
    /\ plan = ThresholdPlan
    /\ rounds = BuildRounds(ThresholdPlan)
    /\ current_round_index = 0
    /\ question_index_in_round = 0
    /\ evaluations = <<>>
    /\ interview_finished = FALSE
    /\ candidate_started = FALSE
    /\ clock = 0
    /\ feedback = "rounds_ready"
    /\ presented = <<>>
    /\ reported = <<>>
    /\ asked = <<>>
    /\ scored = <<>>
    /\ transcripts = {}

SpecThreshold == InitThreshold /\ [][Next]_vars

(***************************************************************************)
(* build_rounds on a plan of three rounds of which the first two get the   *)
(* same key, the first with one question and the second with two: the      *)
(* session as run_analysis leaves it for that plan, for each profile of    *)
(* the onboarding form.                                                    *)
(***************************************************************************)
DuplicateKeyPlan ==
    CHOOSE p \in SeqsUpTo(RawRoundPool, 3) :
        LET r == BuildRounds(p) IN
        /\ Len(r) = 3
        /\ r[1].key = r[2].key
        /\ r[3].key # r[1].key
        /\ Len(r[1].questions) = 1
        /\ Len(r[2].questions) = 2

InitDuplicateKeys ==
    /\ stage = "interview"
    /\ profile \in { {<<"experience", e>>} : e \in ExperienceOptions }
    /\ plan = DuplicateKeyPlan
    /\ rounds = BuildRounds(DuplicateKeyPlan)
    /\ current_round_index = 0
    /\ question_index_in_round = 0
    /\ evaluations = <<>>
    /\ interview_finished = FALSE
    /\ candidate_started = FALSE
    /\ clock = 0
    /\ feedback = "rounds_ready"
    /\ presented = <<>>
    /\ reported = <<>>
    /\ asked = <<>>
    /\ scored = <<>>
    /\ transcripts = {}

SpecDuplicateKeys == InitDuplicateKeys /\ [][Next]_vars

(***************************************************************************)
(* The submit handler while its scoring call is outstanding.  The script   *)
(* of a session runs in one thread, and evaluate_answer blocks it: a       *)
(* widget event that arrives during the call (a button, the toggle, the    *)
(* answer box) does not run until this execution ends.  Streamlit ends it  *)
(* at the next element it emits, which is st.success at line 899, after    *)
(* the append of lines 889-898 and before the increment of line 901; the   *)
(* execution for the event then starts from that state.  An event that     *)
(* arrives when evaluate_answer raises finds the state unchanged, as in    *)
(* Submit.                                                                 *)
(***************************************************************************)
\* The answers recorded so far by executions that were ended before the
\* increment: the log is longer than the number of questions passed.
RECURSIVE QuestionsBefore(_, _)
QuestionsBefore(rs, round_idx) ==
    IF round_idx = 0 THEN 0
    ELSE Len(rs[round_idx].questions) + QuestionsBefore(rs, round_idx - 1)

Interrupted ==
    Len(evaluations) - (QuestionsBefore(rounds, current_round_index) + question_index_in_round)

\* Faulty variant of SubmitInterrupted: the call is detached from the
\* execution, and its record lands after the event's execution moved the
\* session on to the next question.
SubmitDetached ==
    /\ stage = "interview"
    /\ candidate_started
    /\ ~interview_finished
    /\ current_round_index < Len(rounds)
    /\ LET round_idx == current_round_index
           current_round == rounds[round_idx + 1]
           q_idx == question_index_in_round
       IN
       /\ q_idx < Len(current_round.questions)
       /\ clock < MaxClock
       /\ Interrupted < MaxInterrupted
       /\ \E answer \in Answers, eval_result \in EvalResults :
             /\ Strip(answer) # <<>>
             /\ scored' = <<Strip(answer)>>
             /\ evaluations' = RecordEvaluation(evaluations,
                    NewEvaluation(current_round, QuestionAt(current_round.questions, 0),
                                  Strip(answer), eval_result, clock))
       /\ question_index_in_round' = q_idx + 1
       /\ presented' = <<round_idx, q_idx>>
       /\ asked' = QuestionAt(current_round.questions, q_idx)
       /\ UNCHANGED transcripts
    /\ clock' = clock + 1
    /\ feedback' = "interrupted"
    /\ reported' = <<>>
    /\ UNCHANGED <<stage, profile, plan, rounds, current_round_index, interview_finished,
                   candidate_started>>

SubmitInterrupted ==
    /\ stage = "interview"
    /\ candidate_started
    /\ ~interview_finished
    /\ current_round_index < Len(rounds)
    /\ LET round_idx == current_round_index
           current_round == rounds[round_idx + 1]
           q_idx == question_index_in_round
       IN
       /\ q_idx < Len(current_round.questions)
       /\ clock < MaxClock
       /\ Interrupted < MaxInterrupted
       /\ \E answer \in Answers, eval_result \in EvalResults :
             /\ Strip(answer) # <<>>
             /\ scored' = <<Strip(answer)>>
             /\ evaluations' = RecordEvaluation(evaluations,
                    NewEvaluation(current_round, QuestionAt(current_round.questions, q_idx),
                                  Strip(answer), eval_result, clock))
       /\ presented' = <<round_idx, q_idx>>
       /\ asked' = QuestionAt(current_round.questions, q_idx)
       /\ UNCHANGED transcripts
    /\ clock' = clock + 1
    /\ feedback' = "interrupted"
    /\ reported' = <<>>
    /\ UNCHANGED <<stage, profile, plan, rounds, current_round_index,
                   question_index_in_round, interview_finished, candidate_started>>

\* One configured session from the interview page on, for each experience
\* option of the onboarding form: the executions of the interview and the
\* results page, the interrupted submission and the resets.  A reset ends
\* the session; the configuration of the next one is Spec's.
InitInterrupted ==
    /\ stage = "interview"
    /\ profile \in { {<<"experience", e>>} : e \in ExperienceOptions }
    /\ plan = ThresholdPlan
    /\ rounds = BuildRounds(ThresholdPlan)
    /\ current_round_index = 0
    /\ question_index_in_round = 0
    /\ evaluations = <<>>
    /\ interview_finished = FALSE
    /\ candidate_started = FALSE
    /\ clock = 0
    /\ feedback = "rounds_ready"
    /\ presented = <<>>
    /\ reported = <<>>
    /\ asked = <<>>
    /\ scored = <<>>
    /\ transcripts = {}

NextInterrupted ==
    \/ SidebarRestart
    \/ ResultsNewInterview
    \/ RenderIntro
    \/ StartInterview
    \/ Advance
    \/ Submit
    \/ SubmitInterrupted
    \/ RenderResults

SpecInterrupted == InitInterrupted /\ [][NextInterrupted]_vars

(***************************************************************************)
(* The candidate who keeps answering.  The script runs again after every   *)
(* event, so the round boundary, once reached, is decided; a candidate who *)
(* keeps submitting non-blank answers, with scoring calls that eventually  *)
(* succeed, eventually has an answer recorded.  Neither a reset nor an     *)
(* interruption is bound to happen.                                        *)
(***************************************************************************)
\* A submission whose execution runs to its end: the record is appended and
\* the question index raised.
SubmitRecorded == Submit /\ feedback' = "recorded"

SpecInterruptedFair ==
    /\ SpecInterrupted
    /\ WF_vars(SubmitRecorded)
    /\ WF_vars(Advance)

(***************************************************************************)
(* The transcript of the answer to the displayed question.  The script     *)
(* keeps it in st.session_state under "transcript_{round_idx}_{q_idx}",    *)
(* sets it to "" when the key is missing, overwrites it with the text a    *)
(* recording is transcribed to and offers it as the initial content of the *)
(* answer box.  The key is only read behind that default, so a missing key *)
(* and the empty text are one value here.                                  *)
(***************************************************************************)
\* What transcribe_audio_bytes returns when it returns.
Transcriptions == { <<>>, <<"o", "k">> }

\* st.session_state[transcript_key], read behind the default "".
TranscriptAt(ts, round_idx, q_idx) ==
    IF \E t \in ts : t[1] = <<round_idx, q_idx>>
    THEN (CHOOSE t \in ts : t[1] = <<round_idx, q_idx>>)[2]
    ELSE <<>>

\* st.session_state[transcript_key] = text
StoreTranscript(ts, round_idx, q_idx, text) ==
    { t \in ts : t[1] # <<round_idx, q_idx>> } \cup { <<<<round_idx, q_idx>>, text>> }

\* The main interview flow with a recording returned by the microphone of
\* the displayed question: transcribe_audio_bytes raises, returns nothing
\* or returns the text that becomes the transcript.
TranscribeAnswer ==
    /\ stage = "interview"
    /\ candidate_started
    /\ ~interview_finished
    /\ current_round_index < Len(rounds)
    /\ LET round_idx == current_round_index
           current_round == rounds[round_idx + 1]
           q_idx == question_index_in_round
       IN
       /\ q_idx < Len(current_round.questions)
       /\ presented' = <<round_idx, q_idx>>
       /\ asked' = QuestionAt(current_round.questions, q_idx)
       /\ scored' = <<>>
       /\ reported' = <<>>
       /\ \/ /\ feedback' = "transcription_error"
             /\ UNCHANGED transcripts
          \/ \E text \in Transcriptions :
                IF text # <<>>
                THEN /\ transcripts' = StoreTranscript(transcripts, round_idx, q_idx, text)
                     /\ feedback' = "transcribed"
                ELSE /\ feedback' = "not_transcribed"
                     /\ UNCHANGED transcripts
    /\ UNCHANGED <<stage, profile, plan, sessionVars, clock>>

NextTranscript ==
    \/ Next
    \/ TranscribeAnswer

SpecTranscript == Init /\ [][NextTranscript]_vars

(***************************************************************************)
(* Vocabulary of the properties.  These are stated on the session state    *)
(* alone, without the operators of the transitions above.                  *)
(***************************************************************************)
\* A step that is neither a reset nor the stuttering step: a reset is the
\* only step that leads to the onboarding stage.
NoReset == stage' # "onboarding"

\* The session is started before and after the step: the step is neither
\* a start nor a reset nor a new configuration.
WithinSession == candidate_started /\ candidate_started'

\* A round is being run.
InRound ==
    /\ stage = "interview"
    /\ candidate_started
    /\ ~interview_finished
    /\ current_round_index < Len(rounds)

CurrentRound == rounds[current_round_index + 1]

\* Every question of the current round is answered.
AtRoundBoundary == InRound /\ question_index_in_round >= Len(CurrentRound.questions)

IsLastRound == current_round_index = Len(rounds) - 1

\* The overall_impression scores recorded under a round key (section 4.2
\* of the specification): the sum and the number of them.
ScoredUnder(key) ==
    { i \in 1..Len(evaluations) :
        /\ evaluations[i].round_key = key
        /\ \E p \in evaluations[i].evaluation :
              p[1] = "scores" /\ \E q \in p[2] : q[1] = "overall_impression" }

ImpressionAt(i) ==
    LET sc == (CHOOSE p \in evaluations[i].evaluation : p[1] = "scores")[2]
    IN  (CHOOSE q \in sc : q[1] = "overall_impression")[2]

RECURSIVE TotalOf(_)
TotalOf(I) ==
    IF I = {} THEN 0
    ELSE LET i == CHOOSE j \in I : TRUE IN ImpressionAt(i) + TotalOf(I \ {i})

\* average (0.0 when nothing is scored) compared with the threshold t
AverageGeq(key, t) ==
    IF ScoredUnder(key) = {} THEN 0 >= t
    ELSE TotalOf(ScoredUnder(key)) >= t * Cardinality(ScoredUnder(key))

AverageEq(key, t) ==
    /\ ScoredUnder(key) # {}
    /\ TotalOf(ScoredUnder(key)) = t * Cardinality(ScoredUnder(key))

Threshold == GetRoundPassThreshold(profile)

(***************************************************************************)
(* C1  In a started session, on every step that is not a reset,            *)
(* current_round_index does not decrease, question_index_in_round is 0     *)
(* after every step that increases current_round_index, and no step that   *)
(* keeps current_round_index lowers question_index_in_round.               *)
(***************************************************************************)
C1_MonotonicCursors ==
    [][WithinSession =>
         /\ current_round_index' >= current_round_index
         /\ (current_round_index' > current_round_index => question_index_in_round' = 0)
         /\ (current_round_index' = current_round_index
               => question_index_in_round' >= question_index_in_round)]_vars

\* The first round, of two questions, is passed: the question index went from 2 to 0.
C1_Witness ==
    /\ feedback = "passed"
    /\ current_round_index = 1
    /\ question_index_in_round = 0
    /\ Len(rounds[1].questions) = 2
    /\ Len(evaluations) = 2

(***************************************************************************)
(* C2  In a started session the evaluations log only grows at its end:     *)
(* after every step that is not a reset the old log is a prefix of the new *)
(* one.  The log gets shorter only on a reset.                             *)
(***************************************************************************)
C2_AppendOnlyLog ==
    [][/\ WithinSession =>
            /\ Len(evaluations') >= Len(evaluations)
            /\ SubSeq(evaluations', 1, Len(evaluations)) = evaluations
       /\ Len(evaluations') < Len(evaluations) => ~NoReset]_vars

\* A second evaluation is appended behind the first.
C2_Witness ==
    /\ feedback = "recorded"
    /\ Len(evaluations) >= 2
    /\ evaluations[1] # evaluations[2]

(***************************************************************************)
(* C3  Every evaluation in the log carries the key of some round of the    *)
(* rounds list.                                                            *)
(***************************************************************************)
C3_RoundKeyIntegrity ==
    \A i \in 1..Len(evaluations) :
        \E j \in 1..Len(rounds) : rounds[j].key = evaluations[i].round_key

\* Evaluations of two rounds with different keys are in the log.
C3_Witness ==
    /\ Len(rounds) = 2
    /\ rounds[1].key # rounds[2].key
    /\ rounds[1].key # rounds[1].name
    /\ \E i, j \in 1..Len(evaluations) :
          /\ evaluations[i].round_key = rounds[1].key
          /\ evaluations[j].round_key = rounds[2].key

(***************************************************************************)
(* C4  Once interview_finished is true, every step except a reset leaves   *)
(* current_round_index, question_index_in_round, evaluations and           *)
(* interview_finished as they are, and the session is on the results page. *)
(***************************************************************************)
C4_TerminalStability ==
    [][(interview_finished /\ NoReset) =>
         /\ stage' = "results"
         /\ UNCHANGED <<current_round_index, question_index_in_round, evaluations,
                        interview_finished>>]_vars

\* The script ran again on a finished session.
C4_Witness ==
    /\ interview_finished
    /\ feedback = "results"
    /\ evaluations # <<>>

(***************************************************************************)
(* C5  A submission whose scoring call raises leaves the session state as  *)
(* it was: nothing is appended, the cursors and the flags are unchanged,   *)
(* and the question displayed is still the current one.                    *)
(***************************************************************************)
C5_OracleFailureKeepsState ==
    [][feedback' = "eval_error" =>
         /\ UNCHANGED sessionVars
         /\ UNCHANGED stage
         /\ InRound'
         /\ presented' = <<current_round_index', question_index_in_round'>>
         /\ question_index_in_round' < Len(CurrentRound'.questions)]_vars

\* The scoring call failed on the second question of a round.
C5_Witness ==
    /\ feedback = "eval_error"
    /\ Len(evaluations) = 1
    /\ question_index_in_round = 1

(***************************************************************************)
(* C6  At the boundary of a round that is not the last, with the average   *)
(* of the round at or above the threshold, the step increments             *)
(* current_round_index by 1, sets question_index_in_round to 0, leaves     *)
(* interview_finished false and leaves evaluations unchanged.              *)
(***************************************************************************)
C6_PassAdvances ==
    [][(/\ AtRoundBoundary
        /\ ~IsLastRound
        /\ AverageGeq(CurrentRound.key, Threshold)
        /\ NoReset) =>
         /\ current_round_index' = current_round_index + 1
         /\ question_index_in_round' = 0
         /\ ~interview_finished'
         /\ evaluations' = evaluations
         /\ rounds' = rounds]_vars

\* The first of two rounds was passed with a score above the threshold.
C6_Witness ==
    /\ feedback = "passed"
    /\ current_round_index = 1
    /\ question_index_in_round = 0
    /\ ~interview_finished
    /\ Len(rounds) = 2
    /\ AverageGeq(rounds[1].key, Threshold)
    /\ ~AverageEq(rounds[1].key, Threshold)

(***************************************************************************)
(* C7  At the boundary of a round that is not the last, with the average   *)
(* below the threshold, the step sets interview_finished and keeps         *)
(* current_round_index; and from a finished session no step except a reset *)
(* displays a question or appends an evaluation, so no later round is      *)
(* presented or evaluated.                                                 *)
(***************************************************************************)
C7_FailEndsInterview ==
    [][/\ (/\ AtRoundBoundary
           /\ ~IsLastRound
           /\ ~AverageGeq(CurrentRound.key, Threshold)
           /\ NoReset) =>
            /\ interview_finished'
            /\ current_round_index' = current_round_index
       /\ (interview_finished /\ NoReset) =>
            /\ interview_finished'
            /\ current_round_index' = current_round_index
            /\ presented' = <<>>
            /\ evaluations' = evaluations
       /\ (presented' # <<>> /\ NoReset) => presented'[1] <= current_round_index']_vars

\* The first of two rounds failed with scored answers, and the script ran again.
C7_Witness ==
    /\ interview_finished
    /\ feedback = "results"
    /\ Len(rounds) = 2
    /\ current_round_index = 0
    /\ ScoredUnder(rounds[1].key) # {}
    /\ ~AverageGeq(rounds[1].key, Threshold)
    /\ \A i \in 1..Len(evaluations) : evaluations[i].round_key # rounds[2].key

(***************************************************************************)
(* C8  At the boundary of the last round the step sets                     *)
(* interview_finished, whether the average is above or below the           *)
(* threshold, and no step of a session in its last round increments        *)
(* current_round_index.                                                    *)
(***************************************************************************)
C8_LastRoundTerminal ==
    [][/\ (AtRoundBoundary /\ IsLastRound /\ NoReset) =>
            /\ interview_finished'
            /\ current_round_index' = current_round_index
       /\ (InRound /\ IsLastRound /\ NoReset) =>
            current_round_index' = current_round_index]_vars

\* The last of two rounds ended the interview with an average above the threshold.
C8_Witness ==
    /\ interview_finished
    /\ feedback = "final_completed"
    /\ Len(rounds) = 2
    /\ current_round_index = 1
    /\ rounds[1].key # rounds[2].key
    /\ AverageGeq(rounds[2].key, Threshold)

(***************************************************************************)
(* C9  On the step that finishes the interview the message displayed is    *)
(* that of the final round exactly when the round that ended is the last   *)
(* one, and that of the failed threshold exactly when the round is not the *)
(* last and its average is below the threshold.                            *)
(***************************************************************************)
C9_TerminalSignal ==
    [][(~interview_finished /\ interview_finished') =>
         /\ InRound
         /\ feedback' \in {"final_completed", "failed_threshold"}
         /\ feedback' = "final_completed" <=> IsLastRound
         /\ feedback' = "failed_threshold" <=>
               (~IsLastRound /\ ~AverageGeq(CurrentRound.key, Threshold))]_vars

\* The interview ended on the first of two rounds.
C9_Witness ==
    /\ interview_finished
    /\ feedback = "failed_threshold"
    /\ current_round_index = 0
    /\ Len(rounds) = 2

(***************************************************************************)
(* C10  At the boundary of a round that is not the last, with the average  *)
(* exactly equal to the threshold, the step advances to the next round     *)
(* and does not finish the interview.                                      *)
(***************************************************************************)
C10_ThresholdInclusive ==
    [][(/\ AtRoundBoundary
        /\ ~IsLastRound
        /\ AverageEq(CurrentRound.key, Threshold)
        /\ NoReset) =>
         /\ current_round_index' = current_round_index + 1
         /\ ~interview_finished'
         /\ stage' = "interview"]_vars

\* The first of two rounds was passed with an average equal to the threshold.
C10_Witness ==
    /\ feedback = "passed"
    /\ current_round_index = 1
    /\ Len(rounds) = 2
    /\ AverageEq(rounds[1].key, Threshold)

(***************************************************************************)
(* C11  At the boundary of a round that is not the last, when no evaluation *)
(* recorded under the key of the round has an overall_impression, the step *)
(* sets interview_finished and keeps current_round_index, whatever the     *)
(* threshold of the profile: the average is 0.0 and every threshold is     *)
(* above it.                                                               *)
(***************************************************************************)
C11_UnscoredRoundFails ==
    [][(/\ AtRoundBoundary
        /\ ~IsLastRound
        /\ ScoredUnder(CurrentRound.key) = {}
        /\ NoReset) =>
         /\ Threshold > 0
         /\ interview_finished'
         /\ stage' = "results"
         /\ current_round_index' = current_round_index
         /\ feedback' = "failed_threshold"]_vars

\* The first of two rounds ended the interview: its answers were recorded,
\* none with a score.
C11_Witness ==
    /\ interview_finished
    /\ feedback = "failed_threshold"
    /\ Len(rounds) = 2
    /\ current_round_index = 0
    /\ \E i \in 1..Len(evaluations) : evaluations[i].round_key = rounds[1].key
    /\ ScoredUnder(rounds[1].key) = {}

\* current_question() of the specification is not none: a round is being
\* run and one of its questions is not yet answered.
HasCurrentQuestion == InRound /\ question_index_in_round < Len(CurrentRound.questions)

(***************************************************************************)
(* C12  A submission, whatever its outcome, and every growth of the        *)
(* evaluations log happen only from a state that has a current question.   *)
(* From a started state without one (round exhausted, rounds exhausted or  *)
(* interview finished) every step except a reset leaves evaluations        *)
(* unchanged and changes question_index_in_round only together with        *)
(* current_round_index.                                                    *)
(***************************************************************************)
C12_SubmitNeedsCurrentQuestion ==
    [][/\ (\/ feedback' \in {"recorded", "blank_answer", "eval_error"}
           \/ Len(evaluations') > Len(evaluations)) => HasCurrentQuestion
       /\ (~HasCurrentQuestion /\ WithinSession /\ NoReset) =>
            /\ evaluations' = evaluations
            /\ (current_round_index' = current_round_index
                  => question_index_in_round' = question_index_in_round)]_vars

\* Two rounds were run to the end and the results displayed: the log holds
\* one evaluation for each question, none was added after the last question.
C12_Witness ==
    /\ interview_finished
    /\ feedback = "results"
    /\ Len(rounds) = 2
    /\ current_round_index = 1
    /\ question_index_in_round = Len(rounds[2].questions)
    /\ Len(rounds[1].questions) = 2
    /\ Len(evaluations) = Len(rounds[1].questions) + Len(rounds[2].questions)

(***************************************************************************)
(* C13  The start of the interview is taken only from a session that is    *)
(* not started and whose log is empty.  From a started session no step     *)
(* except a reset is a start or shows the intro screen: candidate_started  *)
(* stays true, interview_finished is not set back to false, the log is not *)
(* shortened and the cursors are not both set back to 0 from a later       *)
(* position.                                                               *)
(***************************************************************************)
C13_StartOnlyOnce ==
    [][/\ feedback' = "started" =>
            /\ ~candidate_started
            /\ evaluations = <<>>
            /\ candidate_started'
       /\ (candidate_started /\ NoReset) =>
            /\ candidate_started'
            /\ feedback' \notin {"started", "intro"}
            /\ (interview_finished => interview_finished')
            /\ Len(evaluations') >= Len(evaluations)
            /\ (current_round_index' = 0 /\ question_index_in_round' = 0) =>
                  (current_round_index = 0 /\ question_index_in_round = 0)]_vars

\* A started session with a recorded answer ran the script again: the next
\* question is displayed, not the intro screen, and the record is kept.
C13_Witness ==
    /\ candidate_started
    /\ feedback = "question"
    /\ question_index_in_round = 1
    /\ Len(evaluations) = 1

(***************************************************************************)
(* C14  An analysis whose plan yields no round with a question leaves the  *)
(* stage at "analysis" and writes neither rounds nor cursors nor           *)
(* evaluations nor flags, and no state of the interview or results stage,  *)
(* and no started session, has an empty rounds list.                       *)
(***************************************************************************)
C14_NoRoundsIsConfigurationFailure ==
    [][/\ feedback' = "no_rounds" =>
            /\ stage = "analysis"
            /\ stage' = "analysis"
            /\ UNCHANGED sessionVars
            /\ rounds' = <<>>
            /\ ~candidate_started'
       /\ (stage' \in {"interview", "results"} \/ candidate_started') =>
            rounds' # <<>>]_vars

\* The analysis ended on the message that no round could be built.
C14_Witness ==
    /\ feedback = "no_rounds"
    /\ stage = "analysis"
    /\ rounds = <<>>
    /\ ~candidate_started

\* A question of the plan that is a string with a character other than a blank.
UsableQuestion(q) == q.isstr /\ \E k \in 1..Len(q.text) : q.text[k] # " "

\* The positions of the usable questions of the i-th round of the plan, and
\* the positions of the rounds of the plan that have one.
UsableAt(i) ==
    { j \in 1..Len(plan[i].questions) : UsableQuestion(plan[i].questions[j]) }

KeptRounds == { i \in 1..Len(plan) : UsableAt(i) # {} }

\* The position of i among the members of S, in increasing order.
RankIn(S, i) == Cardinality({ k \in S : k <= i })

(***************************************************************************)
(* C15  The rounds list is the plan without the rounds that have no        *)
(* usable question: the kept rounds are in the order of the plan, each     *)
(* with its usable questions, unchanged and in their order, and without    *)
(* the others.  No round of the list is without a question, and every      *)
(* question displayed is a question of a round of the list.                *)
(***************************************************************************)
C15_RoundsAreUsablePlanRounds ==
    /\ Len(rounds) = Cardinality(KeptRounds)
    /\ \A i \in KeptRounds :
          LET r == rounds[RankIn(KeptRounds, i)] IN
          /\ Len(r.questions) = Cardinality(UsableAt(i))
          /\ \A j \in UsableAt(i) :
                r.questions[RankIn(UsableAt(i), j)] = plan[i].questions[j].text
    /\ \A n \in 1..Len(rounds) : rounds[n].questions # <<>>
    /\ presented # <<>> =>
          /\ presented[1] < Len(rounds)
          /\ presented[2] < Len(rounds[presented[1] + 1].questions)

\* A plan of two rounds, the first without a usable question, the second
\* with a blank between two questions: the rounds list has one round, and
\* its second question, the third of the plan's round, is displayed.
C15_Witness ==
    /\ Len(plan) = 2
    /\ KeptRounds = {2}
    /\ UsableAt(2) = {1, 3}
    /\ Len(rounds) = 1
    /\ feedback = "question"
    /\ presented = <<0, 1>>
    /\ rounds[1].questions[2] = plan[2].questions[3].text

(***************************************************************************)
(* C16  No two rounds of the rounds list have the same key, whether the    *)
(* key is given by the plan or derived from the round name.                *)
(***************************************************************************)
C16_UniqueRoundKeys ==
    \A i, j \in 1..Len(rounds) : rounds[i].key = rounds[j].key => i = j

\* The scoring result of an evaluation has an overall_impression, a number
\* from 0 to 10.
ValidScoringResult(ev) ==
    \E p \in ev.evaluation :
        /\ p[1] = "scores"
        /\ \E q \in p[2] : q[1] = "overall_impression" /\ q[2] \in 0..10

(***************************************************************************)
(* C17  Every evaluation in the log holds a scoring result with an         *)
(* overall_impression from 0 to 10: a scoring call that returns an object  *)
(* without it appends nothing.                                             *)
(***************************************************************************)
C17_OnlyValidScoringResults ==
    \A i \in 1..Len(evaluations) : ValidScoringResult(evaluations[i])

\* The threshold the specification gives for the experience level of a
\* profile: the table, for the levels spelled in any case.
LevelOf(prof) ==
    IF \E p \in prof : p[1] = "experience"
    THEN (CHOOSE p \in prof : p[1] = "experience")[2]
    ELSE <<>>

TableThreshold(prof) ==
    CASE LevelOf(prof) \in {StrIntern, StrUpperIntern, StrFresher, StrLowFresher} -> 5
      [] LevelOf(prof) \in {StrJunior, StrLowJunior} -> 6
      [] LevelOf(prof) \in {StrMid, StrUpperMid} -> 7
      [] LevelOf(prof) \in {StrSenior, StrLowSenior} -> 8
      [] OTHER -> 6

(***************************************************************************)
(* C18  The threshold of a profile is 5 for intern and fresher, 6 for      *)
(* junior, 7 for mid, 8 for senior and 6 for an unknown or missing level,  *)
(* whatever the case of the letters; it does not change during a started   *)
(* session; and at the boundary of a round that is not the last the        *)
(* session advances exactly when the average reaches that value.           *)
(***************************************************************************)
C18_ThresholdTable ==
    [][/\ GetRoundPassThreshold(profile) = TableThreshold(profile)
       /\ GetRoundPassThreshold(profile') = TableThreshold(profile')
       /\ WithinSession => GetRoundPassThreshold(profile') = GetRoundPassThreshold(profile)
       /\ (AtRoundBoundary /\ ~IsLastRound /\ NoReset) =>
            (current_round_index' = current_round_index + 1
               <=> AverageGeq(CurrentRound.key, TableThreshold(profile)))]_vars

\* A candidate declared as "INTERN" passed the first round with an average
\* of exactly 5, and answered a question of the second round.
C18_Witness ==
    /\ LevelOf(profile) = StrUpperIntern
    /\ current_round_index = 1
    /\ question_index_in_round = 1
    /\ feedback = "recorded"
    /\ AverageEq(rounds[1].key, 5)

(***************************************************************************)
(* C19  In every state current_round_index is from 0 to the number of      *)
(* rounds, and when it designates a round, question_index_in_round is from *)
(* 0 to the number of questions of that round.                             *)
(***************************************************************************)
C19_CursorsInBounds ==
    /\ current_round_index \in 0..Len(rounds)
    /\ current_round_index < Len(rounds) =>
          question_index_in_round \in 0..Len(rounds[current_round_index + 1].questions)

\* The last question of the second of two rounds is answered: both cursors
\* are at their highest value, after a first round of more questions.
C19_Witness ==
    /\ feedback = "recorded"
    /\ Len(rounds) = 2
    /\ current_round_index = 1
    /\ Len(rounds[1].questions) > Len(rounds[2].questions)
    /\ question_index_in_round = Len(rounds[2].questions)

(***************************************************************************)
(* C21  After a reset, from whatever state it is taken, the stage is       *)
(* "onboarding", the profile, the plan and the rounds list are empty, both *)
(* cursors are 0, the log is empty and the session is neither started nor  *)
(* finished; and only a reset leads from another stage to "onboarding".    *)
(***************************************************************************)
C21_ResetDiscardsSession ==
    [][(feedback' = "restart" \/ (stage # "onboarding" /\ stage' = "onboarding")) =>
         /\ feedback' = "restart"
         /\ stage' = "onboarding"
         /\ profile' = {}
         /\ plan' = <<>>
         /\ rounds' = <<>>
         /\ current_round_index' = 0
         /\ question_index_in_round' = 0
         /\ evaluations' = <<>>
         /\ ~candidate_started'
         /\ ~interview_finished'
         /\ presented' = <<>>]_vars

\* A reset was taken after answers had been recorded.
C21_Witness ==
    /\ feedback = "restart"
    /\ clock > 0
    /\ stage = "onboarding"
    /\ evaluations = <<>>
    /\ rounds = <<>>

(***************************************************************************)
(* C22  The report generators are called only for a finished session, on   *)
(* the results page, and with the whole log in its order; and the log of a *)
(* finished session is the one it had when it finished, since no step but  *)
(* a reset changes it.                                                     *)
(***************************************************************************)
C22_ReportOnlyWhenFinished ==
    [][/\ reported' # <<>> =>
            /\ interview_finished
            /\ interview_finished'
            /\ stage = "results"
            /\ reported' = evaluations'
            /\ evaluations' = evaluations
       /\ (interview_finished /\ NoReset) => evaluations' = evaluations]_vars

\* The reports were generated from a log of evaluations of two rounds.
C22_Witness ==
    /\ interview_finished
    /\ reported # <<>>
    /\ reported = evaluations
    /\ Len(reported) >= 2
    /\ reported[1].round_key # reported[Len(reported)].round_key

(***************************************************************************)
(* C23  A submission that is recorded appends exactly one evaluation at    *)
(* the end of the log, with the key and the name of the round at           *)
(* current_round_index and the question at (current_round_index,           *)
(* question_index_in_round) of the state before, and adds 1 to             *)
(* question_index_in_round; current_round_index, rounds,                   *)
(* interview_finished, candidate_started and the stage are unchanged.      *)
(***************************************************************************)
C23_SubmitAppendsOne ==
    [][feedback' = "recorded" =>
         /\ HasCurrentQuestion
         /\ Len(evaluations') = Len(evaluations) + 1
         /\ SubSeq(evaluations', 1, Len(evaluations)) = evaluations
         /\ LET e == evaluations'[Len(evaluations')] IN
            /\ e.round_key = CurrentRound.key
            /\ e.round_name = CurrentRound.name
            /\ e.question = CurrentRound.questions[question_index_in_round + 1]
         /\ question_index_in_round' = question_index_in_round + 1
         /\ UNCHANGED <<current_round_index, rounds, interview_finished,
                        candidate_started, stage>>
         /\ ~interview_finished']_vars

\* The second question of the second round is recorded behind the first.
C23_Witness ==
    /\ feedback = "recorded"
    /\ current_round_index = 1
    /\ question_index_in_round = 2
    /\ Len(evaluations) >= 3
    /\ evaluations[Len(evaluations)].question = rounds[2].questions[2]
    /\ evaluations[Len(evaluations)].question # evaluations[Len(evaluations) - 1].question
    /\ stage = "interview"

(***************************************************************************)
(* C24  In a state that has a current question, every step that neither    *)
(* records an answer nor resets leaves the cursors, the log, the flags,    *)
(* the rounds and the stage unchanged; the execution that decides nothing  *)
(* displays the current question.                                          *)
(***************************************************************************)
C24_AdvanceKeepsUnexhaustedRound ==
    [][/\ (HasCurrentQuestion /\ NoReset /\ feedback' # "recorded") =>
            UNCHANGED <<sessionVars, stage, profile, plan>>
       /\ feedback' = "question" =>
            /\ HasCurrentQuestion
            /\ UNCHANGED <<sessionVars, stage>>
            /\ presented' = <<current_round_index, question_index_in_round>>]_vars

\* After one recorded answer of a round of two questions the script ran
\* again: the second question is displayed and nothing else changed.
C24_Witness ==
    /\ feedback = "question"
    /\ presented = <<0, 1>>
    /\ current_round_index = 0
    /\ question_index_in_round = 1
    /\ Len(evaluations) = 1
    /\ ~interview_finished

\* The messages of an execution of the interview stage in which no button
\* is pressed, and those of the results page.
AdvanceSignals ==
    {"passed", "failed_threshold", "final_completed", "exhausted", "question", "to_results"}

ResultsSignals == {"results", "no_evaluations"}

(***************************************************************************)
(* C25  An execution without input that follows an execution without      *)
(* input changes none of the session fields: after a passed round it       *)
(* displays the first question of the next round, after the end of the     *)
(* interview it displays the results page, again and again.                *)
(***************************************************************************)
C25_AdvanceIdempotent ==
    [][(/\ feedback \in AdvanceSignals \cup ResultsSignals
        /\ feedback' \in AdvanceSignals \cup ResultsSignals
        /\ NoReset) =>
         /\ UNCHANGED <<sessionVars, profile, plan>>
         /\ interview_finished => (stage' = "results" /\ feedback' \in ResultsSignals)
         /\ ~interview_finished =>
               /\ stage' = "interview"
               /\ feedback' = "question"
               /\ presented' = <<current_round_index, question_index_in_round>>]_vars

\* The first round was passed and the script ran once more: the first
\* question of the second round is displayed, the cursors are those the
\* pass left.
C25_Witness ==
    /\ feedback = "question"
    /\ presented = <<1, 0>>
    /\ current_round_index = 1
    /\ question_index_in_round = 0
    /\ Len(rounds[1].questions) = 2
    /\ Len(rounds[2].questions) = 1
    /\ Len(evaluations) = 2

(***************************************************************************)
(* C26  An execution of a started session in the interview stage displays  *)
(* a question exactly when current_round_index is below the number of      *)
(* rounds and question_index_in_round below the number of questions of the *)
(* current round, and the question displayed is the one at these two       *)
(* indices; the execution that only displays it changes no session field.  *)
(***************************************************************************)
C26_CurrentQuestionIsPureRead ==
    [][/\ (stage = "interview" /\ candidate_started /\ NoReset) =>
            (asked' # <<>> <=>
               /\ current_round_index < Len(rounds)
               /\ question_index_in_round < Len(rounds[current_round_index + 1].questions))
       /\ asked' # <<>> =>
            /\ stage = "interview" /\ candidate_started
            /\ asked' = rounds[current_round_index + 1].questions[question_index_in_round + 1]
            /\ presented' = <<current_round_index, question_index_in_round>>
       /\ feedback' = "question" =>
            /\ asked' # <<>>
            /\ UNCHANGED <<sessionVars, stage, profile, plan, clock>>]_vars

\* The second question of a round is displayed after the first was answered.
C26_Witness ==
    /\ feedback = "question"
    /\ presented = <<0, 1>>
    /\ asked = rounds[1].questions[2]
    /\ asked # rounds[1].questions[1]
    /\ Len(evaluations) = 1

(***************************************************************************)
(* C27  The start of the interview is taken in the interview stage from a  *)
(* session that is not started and has at least one round; it sets both    *)
(* cursors to 0, empties the log, sets candidate_started, leaves           *)
(* interview_finished false and leaves rounds, plan, profile and stage as  *)
(* they are.                                                               *)
(***************************************************************************)
C27_StartInitialisesSession ==
    [][feedback' = "started" =>
         /\ stage = "interview"
         /\ ~candidate_started
         /\ rounds # <<>>
         /\ current_round_index' = 0
         /\ question_index_in_round' = 0
         /\ evaluations' = <<>>
         /\ candidate_started'
         /\ ~interview_finished'
         /\ UNCHANGED <<rounds, plan, profile, stage>>]_vars

\* The interview was started on a list of two rounds.
C27_Witness ==
    /\ feedback = "started"
    /\ candidate_started
    /\ ~interview_finished
    /\ Len(rounds) = 2
    /\ current_round_index = 0
    /\ question_index_in_round = 0
    /\ evaluations = <<>>

\* The evaluations recorded under a round key, scored or not.
RecordedUnder(key) == { i \in 1..Len(evaluations) : evaluations[i].round_key = key }

(***************************************************************************)
(* C28  At the boundary of a round that is not the last, when some         *)
(* evaluation under the key of the round has a score, the session advances *)
(* exactly when the sum of the scores present reaches the threshold times  *)
(* the number of scores present, however many evaluations without a score  *)
(* the round has; otherwise it finishes.                                   *)
(***************************************************************************)
C28_UnscoredExcludedFromAverage ==
    [][(/\ AtRoundBoundary
        /\ ~IsLastRound
        /\ ScoredUnder(CurrentRound.key) # {}
        /\ NoReset) =>
         LET present == ScoredUnder(CurrentRound.key)
             reached == TotalOf(present) >= Threshold * Cardinality(present)
         IN  /\ current_round_index' = current_round_index + 1 <=> reached
             /\ interview_finished' <=> ~reached]_vars

\* The first round was passed with one score of its two answers, the other
\* without a score: counted as zero the round would have failed.
C28_Witness ==
    /\ feedback = "passed"
    /\ current_round_index = 1
    /\ Cardinality(RecordedUnder(rounds[1].key)) = 2
    /\ Cardinality(ScoredUnder(rounds[1].key)) = 1
    /\ TotalOf(ScoredUnder(rounds[1].key)) >= Threshold
    /\ TotalOf(ScoredUnder(rounds[1].key)) < Threshold * 2

\* At a round boundary, the evaluations recorded for the questions of the
\* current round: every question is recorded once and in order, so they are
\* the last ones of the log, as many as the round has questions.
OwnRecorded ==
    { i \in 1..Len(evaluations) : i > Len(evaluations) - Len(CurrentRound.questions) }

OwnScored == { i \in OwnRecorded : ValidScoringResult(evaluations[i]) }

OwnAverageGeq(t) ==
    IF OwnScored = {} THEN 0 >= t
    ELSE TotalOf(OwnScored) >= t * Cardinality(OwnScored)

(***************************************************************************)
(* C29  At every round boundary the scores averaged are those of the       *)
(* evaluations recorded for the questions of the current round, and no     *)
(* others: the scored evaluations under the key of the round are the       *)
(* scored ones among the round's own, and a round that is not the last is  *)
(* passed exactly when the average of its own scores reaches the           *)
(* threshold.                                                              *)
(***************************************************************************)
C29_OwnScoresDecide ==
    [][(AtRoundBoundary /\ NoReset) =>
         /\ ScoredUnder(CurrentRound.key) = OwnScored
         /\ ~IsLastRound =>
               (current_round_index' = current_round_index + 1
                  <=> OwnAverageGeq(Threshold))]_vars

C31_DraftEmptyAtFirstDisplay ==
    [][(feedback \in {"started", "recorded", "passed"} /\ feedback' = "question") =>
          TranscriptAt(transcripts', presented'[1], presented'[2]) = <<>>]_vars

\* The stages in the order of the flow.
StageOrder == <<"onboarding", "analysis", "interview", "results">>

StageNumber(st) == CHOOSE i \in 1..Len(StageOrder) : StageOrder[i] = st

(***************************************************************************)
(* C32  The stage is one of onboarding, analysis, interview and results.   *)
(* Every step keeps the stage, moves it to the next stage of that order,   *)
(* or is a reset, which leads to onboarding from any stage with the        *)
(* session discarded; in the results stage interview_finished is true.     *)
(***************************************************************************)
C32_StageOrder ==
    [][/\ stage \in { StageOrder[i] : i \in 1..Len(StageOrder) }
       /\ stage' \in { StageOrder[i] : i \in 1..Len(StageOrder) }
       /\ \/ stage' = stage
          \/ StageNumber(stage') = StageNumber(stage) + 1
          \/ /\ stage' = "onboarding"
             /\ rounds' = <<>>
             /\ evaluations' = <<>>
             /\ ~candidate_started'
             /\ ~interview_finished'
       /\ stage = "results" => interview_finished
       /\ stage' = "results" => interview_finished']_vars

\* The results page of a finished interview, reached through every stage.
C32_Witness ==
    /\ stage = "results"
    /\ interview_finished
    /\ feedback = "results"
    /\ profile # {}
    /\ rounds # <<>>
    /\ evaluations # <<>>

\* A text that is empty or consists of spaces.
BlankText(s) == \A i \in 1..Len(s) : s[i] = " "

(***************************************************************************)
(* C33  A blank answer is rejected before the scoring call: the execution  *)
(* that displays the blank-answer message makes no call to evaluate_answer *)
(* and leaves the log, the cursors, the flags and the rounds unchanged.    *)
(* No blank text is ever passed to evaluate_answer, every record appended  *)
(* carries the text that was passed, and without a call nothing is         *)
(* appended.                                                               *)
(***************************************************************************)
C33_BlankAnswerRejected ==
    [][/\ feedback' = "blank_answer" =>
            /\ scored' = <<>>
            /\ UNCHANGED <<sessionVars, stage, clock>>
       /\ \A i \in 1..Len(scored') : ~BlankText(scored'[i])
       /\ Len(evaluations') > Len(evaluations) =>
            /\ scored' = <<evaluations'[Len(evaluations')].answer>>
            /\ ~BlankText(evaluations'[Len(evaluations')].answer)
       /\ scored' = <<>> => Len(evaluations') <= Len(evaluations)]_vars

\* The answer box of the second question submitted blank, after the answer
\* to the first question was recorded.
C33_Witness ==
    /\ feedback = "blank_answer"
    /\ scored = <<>>
    /\ presented = <<0, 1>>
    /\ question_index_in_round = 1
    /\ Len(evaluations) = 1

\* The question positions of the rounds in plan order, each with the key of
\* its round.
RECURSIVE PlanOrder(_)
PlanOrder(rs) ==
    IF rs = <<>> THEN <<>>
    ELSE [q \in 1..Len(Head(rs).questions) |->
             [round_key |-> Head(rs).key, question |-> Head(rs).questions[q]]]
         \o PlanOrder(Tail(rs))

\* The number of question positions before the cursors.
PositionsPassed ==
    Len(PlanOrder(SubSeq(rounds, 1, current_round_index))) + question_index_in_round

C35_FinishedAtRoundEnd ==
    /\ interview_finished =>
          /\ candidate_started
          /\ current_round_index < Len(rounds)
          /\ question_index_in_round = Len(CurrentRound.questions)
          /\ IsLastRound \/ ~AverageGeq(CurrentRound.key, GetRoundPassThreshold(profile))
          /\ evaluations # <<>>
          /\ RecordedUnder(CurrentRound.key) # {}
    /\ stage = "results" => evaluations # <<>>
    /\ feedback # "no_evaluations"

\* An interview ended at its first round, which is not the last, by an
\* average below the threshold, on its results page.
C35_Witness ==
    /\ interview_finished
    /\ stage = "results"
    /\ feedback = "results"
    /\ Len(rounds) = 2
    /\ current_round_index = 0
    /\ question_index_in_round = Len(rounds[1].questions)
    /\ ~AverageGeq(rounds[1].key, GetRoundPassThreshold(profile))

(***************************************************************************)
(* C36  In the interview and results stages current_round_index is less    *)
(* than the number of rounds.  A step raises it only by one and only from  *)
(* an index below the last, and no execution reports that the rounds are   *)
(* exhausted.                                                              *)
(***************************************************************************)
C36_RoundIndexBelowLength ==
    [][/\ stage' \in {"interview", "results"} =>
            /\ rounds' # <<>>
            /\ current_round_index' < Len(rounds')
       /\ current_round_index' > current_round_index =>
            /\ current_round_index' = current_round_index + 1
            /\ current_round_index < Len(rounds) - 1
            /\ rounds' = rounds
       /\ feedback' # "exhausted"]_vars

\* The last of two rounds was reached by the increment and is completed:
\* the interview ends with the index at the last round.
C36_Witness ==
    /\ feedback = "final_completed"
    /\ interview_finished
    /\ Len(rounds) = 2
    /\ current_round_index = 1
    /\ question_index_in_round = Len(rounds[2].questions)

=============================================================================
